---- MODULE Spec2Model ----
(***************************************************************************)
(* Model of the Gemini Live console: the client session controller        *)
(* (Home: handleSubmit, speech capture, mode switching) and the two proxy  *)
(* endpoints (chat POST, design POST).                                     *)
(*                                                                         *)
(* Strings are finite sequences of lexical units.  A unit is one           *)
(* punctuation character, one blank, or one word; "a" \o "b" of the code   *)
(* is sequence concatenation, "" is << >>, and a string is truthy iff it   *)
(* is not << >>.                                                           *)
(***************************************************************************)
EXTENDS Naturals, Sequences, FiniteSets, TLC

VARIABLES
    \* ---- client session (Home) ----
    messages,         \* useState<Message[]>: the message log
    origin,           \* history: origin[i] is the handleSubmit call that
                      \* appended messages[i]
    pendingInput,     \* useState(""): the text area
    isStreaming,      \* useState(false)
    isListening,      \* useState(false)
    engine,           \* the recognition engine: "unavailable" (recognitionRef is
                      \* null), "off", "starting", "on", "stopping"
    currentModeId,    \* useState(defaultModes[0].id)
    recorderAbortRef, \* useRef<AbortController | null>: 0 is null, k the
                      \* controller of call k
    aborted,          \* the controllers whose signal is aborted
    calls,            \* the handleSubmit invocations, in call order
    switches,         \* mode switches made so far
    modes,            \* useState<Mode[]>(defaultModes)
    designNotes,      \* useState(""): the design console's text area
    designOutput,     \* useState<string | null>(null): Undefined is null
    designLoading,    \* useState(false)
    designPending,    \* handleDesignSynthesis calls awaiting fetch or json
    integrations,     \* useState<Integration[]>(defaultIntegrations)
    uuids,            \* identifiers buildId() has produced for modes and connectors
    \* ---- proxy endpoints (chat POST, design POST) ----
    apiKey,           \* process.env.GEMINI_API_KEY
    apiPc,            \* "idle", "upstream" (awaiting fetch), "responded"
    apiReq,           \* the request being handled: [endpoint, body]
    upstreamCalls,    \* fetches issued for the request being handled
    upstream,         \* what the upstream fetch returned
    prompt,           \* the prompt text the handler put in the upstream fetch body
    httpResp          \* the response the endpoint returned: [status, body]

workbenchVars == <<modes, designNotes, designOutput, designLoading, designPending,
                   integrations, uuids>>

sessionVars == <<messages, origin, pendingInput, isStreaming, isListening, engine,
                 currentModeId, recorderAbortRef, aborted, calls, switches,
                 workbenchVars>>

apiVars == <<apiKey, apiPc, apiReq, upstreamCalls, upstream, prompt, httpResp>>

vars == <<sessionVars, apiVars>>

----------------------------------------------------------------------------
(* Bounds *)

\* handleSubmit invocations that pass the blank check, per behaviour
MaxSubmits == 2

\* mode switches per behaviour
MaxSwitches == 1

\* turns of a conversation history sent to an endpoint
MaxTurns == 2

\* identifiers buildId produces per behaviour, for added modes and connector drafts
MaxIds == 1

\* handleDesignSynthesis calls in flight at a time
MaxDesignPending == 1

----------------------------------------------------------------------------
(* Strings *)

\* the value undefined where a string is expected: a unit no string contains
Undefined == <<"<undefined>">>

\* an optional object or array: absent, or present with its value
Absent == << >>

Present(x) == <<x>>

Blank == " "

\* the line terminator "\n"
NL == "\n"

\* white space as String.prototype.trim sees it
IsBlankUnit(u) == u = Blank \/ u = NL

RECURSIVE TrimStart(_)
TrimStart(s) ==
    IF s = << >> THEN << >>
    ELSE IF IsBlankUnit(Head(s)) THEN TrimStart(Tail(s))
    ELSE s

RECURSIVE TrimEnd(_)
TrimEnd(s) ==
    IF s = << >> THEN << >>
    ELSE IF IsBlankUnit(s[Len(s)]) THEN TrimEnd(SubSeq(s, 1, Len(s) - 1))
    ELSE s

\* String.prototype.trim
Trim(s) == TrimEnd(TrimStart(s))

\* JavaScript truthiness of an optional string
Truthy(s) == s # Undefined /\ s # << >>

----------------------------------------------------------------------------
(* JSON text: JSON.parse and JSON.stringify over unit sequences *)

Quote == "\""

NumberUnits == {"0", "1"}

\* a JavaScript value: str holds the units of a string, number or literal,
\* items the elements of an array, members the [key, val] pairs of an object
\* in source order
JValue(type, str, items, members) ==
    [type |-> type, str |-> str, items |-> items, members |-> members]

JNull == JValue("null", << >>, << >>, << >>)
JBool == JValue("boolean", <<"true">>, << >>, << >>)
JNum(u) == JValue("number", <<u>>, << >>, << >>)
JStr(x) == JValue("string", x, << >>, << >>)
JArr(items) == JValue("array", << >>, items, << >>)
JObj(members) == JValue("object", << >>, << >>, members)
JUndefined == JValue("undefined", << >>, << >>, << >>)

ParseFail == [ok |-> FALSE, val |-> JUndefined, next |-> 0]

ParseOk(v, n) == [ok |-> TRUE, val |-> v, next |-> n]

RECURSIVE SkipWs(_, _)
SkipWs(s, i) ==
    IF i <= Len(s) /\ s[i] = Blank THEN SkipWs(s, i + 1) ELSE i

\* the position of the first Quote at or after i, or 0
RECURSIVE FindQuote(_, _)
FindQuote(s, i) ==
    IF i > Len(s) THEN 0
    ELSE IF s[i] = Quote THEN i
    ELSE FindQuote(s, i + 1)

\* a string literal whose opening Quote is at i
ParseString(s, i) ==
    LET j == FindQuote(s, i + 1)
    IN  IF i > Len(s) \/ s[i] # Quote \/ j = 0 THEN ParseFail
        ELSE ParseOk(JStr(SubSeq(s, i + 1, j - 1)), j + 1)

RECURSIVE ParseValue(_, _)
RECURSIVE ParseMembers(_, _, _)
RECURSIVE ParseElements(_, _, _)

\* members of an object after "{" or ",", up to and including "}"
ParseMembers(s, i, acc) ==
    LET k == ParseString(s, SkipWs(s, i))
        c == IF k.ok THEN SkipWs(s, k.next) ELSE 0
        v == IF k.ok /\ c <= Len(s) /\ s[c] = ":" THEN ParseValue(s, c + 1)
             ELSE ParseFail
        e == IF v.ok THEN SkipWs(s, v.next) ELSE 0
        acc2 == Append(acc, [key |-> k.val.str, val |-> v.val])
    IN  IF ~v.ok \/ e > Len(s) THEN ParseFail
        ELSE IF s[e] = "}" THEN ParseOk(JObj(acc2), e + 1)
        ELSE IF s[e] = "," THEN ParseMembers(s, e + 1, acc2)
        ELSE ParseFail

\* elements of an array after "[" or ",", up to and including "]"
ParseElements(s, i, acc) ==
    LET v == ParseValue(s, i)
        e == IF v.ok THEN SkipWs(s, v.next) ELSE 0
        acc2 == Append(acc, v.val)
    IN  IF ~v.ok \/ e > Len(s) THEN ParseFail
        ELSE IF s[e] = "]" THEN ParseOk(JArr(acc2), e + 1)
        ELSE IF s[e] = "," THEN ParseElements(s, e + 1, acc2)
        ELSE ParseFail

ParseValue(s, i) ==
    LET j == SkipWs(s, i)
        n == SkipWs(s, j + 1)
    IN  IF j > Len(s) THEN ParseFail
        ELSE IF s[j] = Quote THEN ParseString(s, j)
        ELSE IF s[j] \in NumberUnits THEN ParseOk(JNum(s[j]), j + 1)
        ELSE IF s[j] = "null" THEN ParseOk(JNull, j + 1)
        ELSE IF s[j] = "true" THEN ParseOk(JBool, j + 1)
        ELSE IF s[j] = "{" THEN
            IF n <= Len(s) /\ s[n] = "}" THEN ParseOk(JObj(<< >>), n + 1)
            ELSE ParseMembers(s, j + 1, << >>)
        ELSE IF s[j] = "[" THEN
            IF n <= Len(s) /\ s[n] = "]" THEN ParseOk(JArr(<< >>), n + 1)
            ELSE ParseElements(s, j + 1, << >>)
        ELSE ParseFail

\* JSON.parse: the whole text must be one value
JsonParse(s) ==
    LET r == ParseValue(s, 1)
    IN  IF r.ok /\ SkipWs(s, r.next) = Len(s) + 1 THEN r ELSE ParseFail

\* obj[key] of JavaScript on a parsed value: the last member with that key
RECURSIVE LastMember(_, _, _)
LastMember(members, key, i) ==
    IF i = 0 THEN JUndefined
    ELSE IF members[i].key = key THEN members[i].val
    ELSE LastMember(members, key, i - 1)

GetProperty(v, key) ==
    IF v.type = "object" THEN LastMember(v.members, key, Len(v.members))
    ELSE JUndefined

\* JSON.stringify, without indentation
RECURSIVE Stringify(_)
RECURSIVE StringifyMembers(_, _)
RECURSIVE StringifyElements(_, _)

StringifyMembers(members, i) ==
    IF i > Len(members) THEN << >>
    ELSE (IF i > 1 THEN <<",">> ELSE << >>)
         \o <<Quote>> \o members[i].key \o <<Quote, ":">>
         \o Stringify(members[i].val)
         \o StringifyMembers(members, i + 1)

StringifyElements(items, i) ==
    IF i > Len(items) THEN << >>
    ELSE (IF i > 1 THEN <<",">> ELSE << >>)
         \o Stringify(items[i]) \o StringifyElements(items, i + 1)

Stringify(v) ==
    IF v.type = "string" THEN <<Quote>> \o v.str \o <<Quote>>
    ELSE IF v.type = "number" THEN v.str
    ELSE IF v.type = "boolean" THEN v.str
    ELSE IF v.type = "null" THEN <<"null">>
    ELSE IF v.type = "array" THEN <<"[">> \o StringifyElements(v.items, 1) \o <<"]">>
    ELSE <<"{">> \o StringifyMembers(v.members, 1) \o <<"}">>

----------------------------------------------------------------------------
(* Proxy endpoints: inputs *)

\* process.env.GEMINI_API_KEY: unset, set to "", or set
ApiKeys == { Undefined, << >>, <<"key">> }

\* ChatRequest.message
ChatMessages == { Undefined, << >>, <<Blank>>, <<Blank, Blank>>, <<"hi">>,
                  <<Blank, "hi", Blank>> }

\* ConversationTurn, DesignTurn
Turn(role, content) == [role |-> role, content |-> content]

Turns ==
    { Turn(<<"user">>, <<"hi">>),
      Turn(<<"assistant">>, << >>),
      Turn(<<"system">>, <<"- step one", NL, "- step two">>),
      Turn(<<"USER">>, <<"Hello">>) }

\* conversation histories of at most MaxTurns turns
Conversations == UNION { [1..n -> Turns] : n \in 0..MaxTurns }

\* ChatRequest: modeId, systemPrompt and conversation are optional
ChatRequest(message, modeId, systemPrompt, conversation) ==
    [message |-> message, modeId |-> modeId, systemPrompt |-> systemPrompt,
     conversation |-> conversation]

ChatRequests ==
    { ChatRequest(m, Undefined, Undefined, Absent) : m \in ChatMessages }
    \cup { ChatRequest(<<"hi">>, <<"flow-coach">>, <<"Coach with empathy.">>, Present(c)) :
             c \in Conversations }

\* DesignRequest: modeId, notes and transcript are optional
DesignRequest(modeId, notes, transcript) ==
    [modeId |-> modeId, notes |-> notes, transcript |-> transcript]

DesignRequests ==
    { DesignRequest(Undefined, n, Absent) : n \in { Undefined, << >>, <<"ship it">> } }
    \cup { DesignRequest(<<"flow-coach">>, <<"ship it">>, Present(c)) :
             c \in Conversations }

Member(k, v) == [key |-> k, val |-> v]

ReplyValues == { JNull, JNum("1"), JStr(<< >>), JStr(<<"Hello">>) }

PlanValues == { JNull, JNum("1"), JStr(<< >>), JStr(<<"- step one">>) }

\* objects the upstream model may answer with
ReplyObjects ==
    { JObj(<< >>), JObj(<<Member(<<"Reply">>, JStr(<<"Hello">>))>>) }
    \cup { JObj(<<Member(<<"reply">>, r)>>) : r \in ReplyValues }
    \cup { JObj(<<Member(<<"plan">>, p)>>) : p \in PlanValues }
    \cup { JObj(<<Member(<<"reply">>, r), Member(<<"plan">>, p)>>) :
             r \in ReplyValues, p \in PlanValues }
    \cup { JObj(<<Member(<<"plan">>, p), Member(<<"reply">>, JStr(<<"Hello">>))>>) :
             p \in PlanValues }

JsonValues ==
    ReplyValues
    \cup { JBool, JNum("0"), JArr(<< >>), JArr(<<JStr(<<"Hello">>)>>) }
    \cup { JArr(<<o>>) : o \in { JObj(<<Member(<<"reply">>, JStr(<<"Hello">>))>>) } }
    \cup { JObj(<<Member(<<"data">>, o)>>) :
             o \in { JObj(<<Member(<<"reply">>, JStr(<<"Hello">>))>>) } }
    \cup ReplyObjects

Punctuation == { "{", "}", "[", "]", ":", "," }

\* s with a blank around every punctuation unit
RECURSIVE SpaceOut(_)
SpaceOut(s) ==
    IF s = << >> THEN << >>
    ELSE (IF Head(s) \in Punctuation THEN <<Blank, Head(s), Blank>> ELSE <<Head(s)>>)
         \o SpaceOut(Tail(s))

\* a candidate text together with the JSON value it denotes (JUndefined: none)
Text(t, v) == [text |-> t, denotes |-> v]

ValidTexts ==
    { Text(Stringify(v), v) : v \in JsonValues }
    \cup { Text(SpaceOut(Stringify(v)), v) : v \in JsonValues }

\* texts that are not JSON: the empty text, prose, a fenced block, an unquoted
\* key, a trailing comma, trailing prose, and every proper prefix of an object,
\* an array or a string literal
InvalidTexts ==
    { Text(t, JUndefined) :
        t \in { << >>, <<Blank>>, <<"Just a plain sentence.">>, <<"Hello">>,
                <<"{", "reply", ":", Quote, "Hello", Quote, "}">>,
                <<"{", Quote, "reply", Quote, ":", Quote, "Hello", Quote, ",", "}">>,
                <<"{", Quote, "reply", Quote, ":", Quote, "Hello", Quote, "}", "Hello">>,
                <<"~~~json", "{", Quote, "reply", Quote, ":", Quote, "Hello", Quote,
                  "}", "~~~">> } }
    \cup UNION { { Text(SubSeq(Stringify(v), 1, n), JUndefined) :
                     n \in 1..(Len(Stringify(v)) - 1) } :
                   v \in { w \in JsonValues :
                            w.type \in {"object", "array", "string"} } }

CandidateTexts == ValidTexts \cup InvalidTexts

Part(t) == [text |-> t]

Candidate(parts) == [content |-> Present([parts |-> Present(parts)])]

Payload(candidates) == [candidates |-> Present(candidates)]

\* GeminiResponse payloads whose first candidate carries text t
PayloadsOf(t) ==
    { Payload(<<Candidate(<<Part(t)>>)>>) }
    \cup (IF Len(t) >= 2 /\ Len(t) <= 5
          THEN { Payload(<<Candidate(<<Part(SubSeq(t, 1, 1)), Part(Undefined),
                                      Part(SubSeq(t, 2, Len(t)))>>),
                           Candidate(<<Part(<<"Hello">>)>>)>>) }
          ELSE {})

\* GeminiResponse payloads without any text
EmptyPayloads ==
    { [candidates |-> Absent],
      Payload(<< >>),
      Payload(<<[content |-> Absent]>>),
      Payload(<<[content |-> Present([parts |-> Absent])]>>),
      Payload(<<Candidate(<< >>)>>),
      Payload(<<Candidate(<<Part(Undefined)>>)>>),
      Payload(<<[content |-> Absent], Candidate(<<Part(<<"Hello">>)>>)>>) }

NoPayload == [candidates |-> Absent]

\* what `await fetch(...)` and the body read can produce; text is the body of
\* a non-success response, and for a success the text its first candidate carries
UpstreamResponse(kind, ok, status, payload, text, denotes) ==
    [kind |-> kind, ok |-> ok, status |-> status, payload |-> payload,
     text |-> text, denotes |-> denotes]

NoUpstream == UpstreamResponse("none", FALSE, 0, NoPayload, << >>, JUndefined)

UpstreamErrorStatuses == { 400, 429, 500, 503 }

UpstreamErrorBodies ==
    { << >>, <<"{", Quote, "error", Quote, ":", Quote, "quota", Quote, "}">> }

UpstreamResponses ==
    UNION { { UpstreamResponse("response", TRUE, 200, p, t.text, t.denotes) :
                p \in PayloadsOf(t.text) } : t \in CandidateTexts }
    \cup { UpstreamResponse("response", TRUE, 200, p, << >>, JUndefined) :
             p \in EmptyPayloads }
    \cup { UpstreamResponse("response", FALSE, s, NoPayload, b, JUndefined) :
             s \in UpstreamErrorStatuses, b \in UpstreamErrorBodies }
    \cup { UpstreamResponse("malformed", TRUE, 200, NoPayload, <<"<html>">>, JUndefined),
           UpstreamResponse("failed", FALSE, 0, NoPayload, << >>, JUndefined) }

----------------------------------------------------------------------------
(* Proxy endpoints: handlers *)

\* parts.map((part) => part?.text ?? "").join("")
RECURSIVE JoinParts(_)
JoinParts(parts) ==
    IF parts = << >> THEN << >>
    ELSE (IF Head(parts).text = Undefined THEN << >> ELSE Head(parts).text)
         \o JoinParts(Tail(parts))

\* the text of the last candidate instead of the first
ExtractText_LastCandidate(payload) ==
    LET candidates == IF payload.candidates = Absent THEN << >>
                      ELSE payload.candidates[1]
        candidate == candidates[Len(candidates)]
    IN  IF candidates = << >> THEN << >>
        ELSE IF candidate.content = Absent THEN << >>
        ELSE IF candidate.content[1].parts = Absent THEN << >>
        ELSE JoinParts(candidate.content[1].parts[1])

\* extractText of the chat route
ExtractText(payload) ==
    LET candidates == IF payload.candidates = Absent THEN << >>
                      ELSE payload.candidates[1]
    IN  IF candidates = << >> THEN << >>
        ELSE IF Head(candidates).content = Absent THEN << >>
        ELSE IF Head(candidates).content[1].parts = Absent THEN << >>
        ELSE JoinParts(Head(candidates).content[1].parts[1])

\* extractText of the design route
DesignExtractText(payload) ==
    LET candidates == IF payload.candidates = Absent THEN << >>
                      ELSE payload.candidates[1]
    IN  IF candidates = << >> THEN << >>
        ELSE IF Head(candidates).content = Absent THEN << >>
        ELSE IF Head(candidates).content[1].parts = Absent THEN << >>
        ELSE JoinParts(Head(candidates).content[1].parts[1])

\* safeJsonParse: the parsed value, or null when JSON.parse throws
SafeJsonParse(value) ==
    LET r == JsonParse(value)
    IN  IF r.ok THEN r.val ELSE JNull

\* truthiness of a parsed JSON value
JsTruthy(v) ==
    /\ v.type \notin {"null", "undefined"}
    /\ ~(v.type = "string" /\ v.str = << >>)
    /\ ~(v.type = "number" /\ v.str = <<"0">>)

Placeholder == <<"Gemini did not return a message.">>

Response(status, body) == [status |-> status, body |-> body]

NoResponse == Response(0, [pending |-> TRUE])

\* an exception that leaves the route handler: the framework answers 500
Unhandled == Response(500, [unhandled |-> TRUE])

\* `!process.env.GEMINI_API_KEY`
KeyMissing_OnlyUnset(key) == key = Undefined

KeyMissing(key) == ~Truthy(key)

\* `!message?.trim()`
MessageMissing_NoTrim(message) == ~Truthy(message)

MessageMissing(message) == message = Undefined \/ Trim(message) = << >>

\* the chat endpoint's 200 body: a property whose value is undefined is left
\* out of the serialised body, so plan = Undefined is an absent plan
ChatReplyBody_PlanUnchecked(rawText) ==
    LET parsed == SafeJsonParse(rawText)
        reply == GetProperty(parsed, <<"reply">>)
        plan == GetProperty(parsed, <<"plan">>)
    IN  IF JsTruthy(parsed) /\ reply.type = "string"
        THEN [reply |-> reply.str,
              plan |-> IF plan.type = "undefined" THEN Undefined ELSE plan.str]
        ELSE [reply |-> IF rawText # << >> THEN rawText ELSE Placeholder,
              plan |-> Undefined]

ChatReplyBody_TrimmedFallback(rawText) ==
    LET parsed == SafeJsonParse(rawText)
        reply == GetProperty(parsed, <<"reply">>)
        plan == GetProperty(parsed, <<"plan">>)
    IN  IF JsTruthy(parsed) /\ reply.type = "string"
        THEN [reply |-> reply.str,
              plan |-> IF plan.type = "string" THEN plan.str ELSE Undefined]
        ELSE [reply |-> IF Trim(rawText) # << >> THEN Trim(rawText) ELSE Placeholder,
              plan |-> Undefined]

ChatReplyBody(rawText) ==
    LET parsed == SafeJsonParse(rawText)
        reply == GetProperty(parsed, <<"reply">>)
        plan == GetProperty(parsed, <<"plan">>)
    IN  IF JsTruthy(parsed) /\ reply.type = "string"
        THEN [reply |-> reply.str,
              plan |-> IF plan.type = "string" THEN plan.str ELSE Undefined]
        ELSE [reply |-> IF rawText # << >> THEN rawText ELSE Placeholder,
              plan |-> Undefined]

\* `if (!response.ok)`: the upstream status and body are passed through
UpstreamErrorResponse_AlwaysBadGateway(label, resp) ==
    Response(502, [error |-> label, detail |-> resp.text])

UpstreamErrorResponse(label, resp) ==
    Response(resp.status, [error |-> label, detail |-> resp.text])

\* String.prototype.toUpperCase, unit by unit; units without a lower-case
\* letter are their own upper case
ToUpperCaseUnit(u) ==
    CASE u = "user" -> "USER"
      [] u = "assistant" -> "ASSISTANT"
      [] u = "system" -> "SYSTEM"
      [] u = "hi" -> "HI"
      [] u = "Hello" -> "HELLO"
      [] u = "- step one" -> "- STEP ONE"
      [] u = "- step two" -> "- STEP TWO"
      [] OTHER -> u

ToUpperCase(s) == [i \in DOMAIN s |-> ToUpperCaseUnit(s[i])]

\* a turn's line with the content upper-cased as well
TurnLine_AllUpperCase(turn) ==
    ToUpperCase(turn.role \o <<":", Blank>> \o turn.content)

\* the template literal of the map callback: role.toUpperCase(), ": ", content
TurnLine(turn) ==
    ToUpperCase(turn.role) \o <<":", Blank>> \o turn.content

\* Array.prototype.join
RECURSIVE Join(_, _)
Join(lines, separator) ==
    IF lines = << >> THEN << >>
    ELSE IF Len(lines) = 1 THEN lines[1]
    ELSE lines[1] \o separator \o Join(Tail(lines), separator)

\* conversation.map(...).join("\n")
Transcript(conversation) ==
    Join([i \in DOMAIN conversation |-> TurnLine(conversation[i])], <<NL>>)

\* `value ?? fallback` for an optional string
OrElse(value, fallback) == IF value = Undefined THEN fallback ELSE value

\* `value || fallback` for an optional string
OrDefault(value, fallback) == IF Truthy(value) THEN value ELSE fallback

\* an optional array with its default `= []`
OrEmpty(list) == IF list = Absent THEN << >> ELSE list[1]

\* userPrompt of the chat handler
ChatPrompt(body) ==
    Trim(<<NL, "You are operating the Gemini Live Agentic console.", NL,
           "Mode ID: ">> \o OrElse(body.modeId, <<"unknown">>)
         \o <<NL, "System Instructions:", NL>>
         \o OrElse(body.systemPrompt,
                   <<"Maintain a helpful, agentic tone and expand user ideas.">>)
         \o <<NL, NL, "Transcript so far:", NL>>
         \o Transcript(OrEmpty(body.conversation))
         \o <<NL, NL, "New live user utterance:", NL>>
         \o body.message
         \o <<NL, NL, "Respond with strict JSON that matches:", NL,
              "{", NL,
              "  \"reply\": \"string\",", NL,
              "  \"plan\": \"optional string describing next agentic actions, formatted in markdown bullet points if present\"", NL,
              "}", NL>>)

\* autopilotPrompt of the design handler
DesignPrompt(body) ==
    Trim(<<NL, "You are the autonomous design autopilot for a Gemini Live mobile agent.", NL,
           "Assess the current session for mode \"">>
         \o OrElse(body.modeId, <<"unspecified">>)
         \o <<"\".", NL, NL, "Context transcript:", NL>>
         \o OrDefault(Transcript(OrEmpty(body.transcript)),
                      <<"No conversation captured.">>)
         \o <<NL, NL, "Additional operator notes:", NL>>
         \o OrDefault(body.notes, <<"No extra notes.">>)
         \o <<NL, NL, "Output a crisp roadmap covering:", NL,
              "1. UI/interaction adjustments (max 3 bullets)", NL,
              "2. New or upgraded modes, including names and signature behaviors", NL,
              "3. Integration or MCP connector opportunities with validation steps", NL,
              NL,
              "Return markdown no longer than 220 words. Lean into agentic, actionable language.",
              NL>>)

\* no upstream fetch was issued
NoPrompt == << >>

ChatKeyError ==
    <<"Missing GEMINI_API_KEY environment variable. Add it to Vercel and local .env to enable live agent calls.">>

DesignKeyError ==
    <<"Missing GEMINI_API_KEY environment variable. Add it to use the design autopilot.">>

\* the chat POST handler up to `await fetch`
ChatPOST ==
    \E body \in ChatRequests :
        /\ apiPc = "idle"
        /\ apiReq' = [endpoint |-> "chat", body |-> body]
        /\ upstream' = NoUpstream
        /\ IF KeyMissing(apiKey)
           THEN /\ httpResp' = Response(500, [error |-> ChatKeyError])
                /\ apiPc' = "responded"
                /\ upstreamCalls' = 0
                /\ prompt' = NoPrompt
           ELSE IF MessageMissing(body.message)
           THEN /\ httpResp' = Response(400, [error |-> <<"Message is required.">>])
                /\ apiPc' = "responded"
                /\ upstreamCalls' = 0
                /\ prompt' = NoPrompt
           ELSE /\ httpResp' = NoResponse
                /\ apiPc' = "upstream"
                /\ upstreamCalls' = 1
                /\ prompt' = ChatPrompt(body)
        /\ UNCHANGED <<sessionVars, apiKey>>

\* the chat POST handler from the return of `await fetch`
ChatUpstreamReturns ==
    \E resp \in UpstreamResponses :
        /\ apiPc = "upstream"
        /\ apiReq.endpoint = "chat"
        /\ upstream' = resp
        /\ httpResp' =
              IF resp.kind = "failed" THEN Unhandled
              ELSE IF ~resp.ok THEN UpstreamErrorResponse(<<"Gemini API error">>, resp)
              ELSE IF resp.kind = "malformed" THEN Unhandled
              ELSE Response(200, ChatReplyBody(ExtractText(resp.payload)))
        /\ apiPc' = "responded"
        /\ UNCHANGED <<sessionVars, apiKey, apiReq, upstreamCalls, prompt>>

\* the design POST handler up to `await fetch`
DesignPOST ==
    \E body \in DesignRequests :
        /\ apiPc = "idle"
        /\ apiReq' = [endpoint |-> "design", body |-> body]
        /\ upstream' = NoUpstream
        /\ IF KeyMissing(apiKey)
           THEN /\ httpResp' = Response(500, [error |-> DesignKeyError])
                /\ apiPc' = "responded"
                /\ upstreamCalls' = 0
                /\ prompt' = NoPrompt
           ELSE /\ httpResp' = NoResponse
                /\ apiPc' = "upstream"
                /\ upstreamCalls' = 1
                /\ prompt' = DesignPrompt(body)
        /\ UNCHANGED <<sessionVars, apiKey>>

\* the design POST handler from the return of `await fetch`
DesignUpstreamReturns ==
    \E resp \in UpstreamResponses :
        /\ apiPc = "upstream"
        /\ apiReq.endpoint = "design"
        /\ upstream' = resp
        /\ httpResp' =
              IF resp.kind = "failed" THEN Unhandled
              ELSE IF ~resp.ok
              THEN UpstreamErrorResponse(<<"Gemini design autopilot error">>, resp)
              ELSE IF resp.kind = "malformed" THEN Unhandled
              ELSE Response(200, [proposal |-> DesignExtractText(resp.payload)])
        /\ apiPc' = "responded"
        /\ UNCHANGED <<sessionVars, apiKey, apiReq, upstreamCalls, prompt>>

NoRequest ==
    [endpoint |-> "none", body |-> ChatRequest(Undefined, Undefined, Undefined, Absent)]

ApiIdle ==
    /\ apiPc = "idle"
    /\ apiReq = NoRequest
    /\ upstreamCalls = 0
    /\ upstream = NoUpstream
    /\ prompt = NoPrompt
    /\ httpResp = NoResponse

----------------------------------------------------------------------------
(* Client session: data *)

\* defaultModes[i].id
DefaultModeIds == <<"research-navigator", "creative-director", "flow-coach">>

ModeIds == {DefaultModeIds[i] : i \in DOMAIN DefaultModeIds}

\* Mode (accent, capabilities and voice play no part in the session's logic)
Mode(id, name, description, systemPrompt) ==
    [id |-> id, name |-> name, description |-> description,
     systemPrompt |-> systemPrompt]

DefaultModes ==
    << Mode(DefaultModeIds[1], <<"Research Navigator">>,
            <<"Synthesizes live research, MCP knowledge bases, and streaming docs to answer with citations and action items.">>,
            <<"You are Research Navigator, an always-on research lieutenant. Maintain accurate citations, cite sources inline when possible, and surface unknowns that need human validation. Ask clarifying questions if scope is ambiguous.">>),
       Mode(DefaultModeIds[2], <<"Creative Director">>,
            <<"Co-designs visuals, voiceovers, and layout updates in real time with Gemini multimodal responses.">>,
            <<"You are Creative Director Mode. Lead with bold creative direction, propose high-impact campaigns, and provide quick mood-board descriptions. Suggest UI rewrites that keep the agentic design cohesive.">>),
       Mode(DefaultModeIds[3], <<"Flow Coach">>,
            <<"Guides rituals, habits, and operational handoffs with multi-turn planning and gentle accountability.">>,
            <<"You are Flow Coach Mode. Coach with empathy, structure action plans, offer check-ins, and adapt cadence per user energy. Sustain agentic tone and suggest automations when a task repeats.">>) >>

\* Integration
Integration(id, name, description, status) ==
    [id |-> id, name |-> name, description |-> description, status |-> status]

DefaultIntegrations ==
    << Integration("mcp-research-graph", <<"MCP Research Graph">>,
                   <<"Streams live citations, topic graphs, and evidence snapshots into the Research Navigator mode.">>,
                   "ready"),
       Integration("workflow-orchestrator", <<"Workflow Orchestrator API">>,
                   <<"Turns Flow Coach playbooks into executable automations and multi-agent rituals.">>,
                   "ready") >>

\* the design console before any use
WorkbenchIdle ==
    /\ modes = DefaultModes
    /\ designNotes = << >>
    /\ designOutput = Undefined
    /\ designLoading = FALSE
    /\ designPending = 0
    /\ integrations = DefaultIntegrations
    /\ uuids = 0

\* what the operator types into the text area
TypedInputs == { <<Blank>>, <<Blank, "hi", Blank>> }

\* final transcripts accumulated by recognition.onresult (final += transcript + " ")
FinalTranscripts == { << >>, <<"hi", Blank>> }

\* interim transcripts accumulated by recognition.onresult
InterimTranscripts == { << >>, <<"y">> }

\* bodies the chat endpoint answers with on 200: {reply, plan?}
ChatBodies ==
    { [reply |-> <<"Hello">>, plan |-> Undefined],
      [reply |-> <<"Hello">>, plan |-> <<"- step one">>],
      [reply |-> << >>, plan |-> << >>] }

\* response.statusText of a non-success response
StatusTexts == { <<"Bad Request">> }

\* error.message of a rejected fetch
NetworkErrorMessage == <<"Failed to fetch">>
AbortErrorMessage == <<"The user aborted a request.">>

Message(role, content, modeId) ==
    [role |-> role, content |-> content, modeId |-> modeId]

CallIds == 1..MaxSubmits

InFlightPcs == {"fetch", "json"}

InFlight(k) == k \in DOMAIN calls /\ calls[k].pc \in InFlightPcs

----------------------------------------------------------------------------
(* Client session: handleSubmit *)

\* recorderAbortRef.current.abort(): the signals aborted after the call
AbortPrevious_Skipped(ab, ref) == ab

AbortPrevious(ab, ref) == IF ref # 0 THEN ab \cup {ref} ELSE ab

\* a pending fetch or body read whose signal is aborted rejects with an AbortError
Settle(cs, ab) ==
    [k \in DOMAIN cs |->
        IF cs[k].pc \in InFlightPcs /\ cs[k].controller \in ab
        THEN [cs[k] EXCEPT !.pc = "aborted", !.cancelled = TRUE]
        ELSE cs[k]]

\* the error logged as if it were the assistant's answer
ErrorMessage_AsAssistant(detail, modeId) ==
    Message("assistant", <<"Gemini live agent error: ">> \o detail, modeId)

\* the catch block's system message
ErrorMessage(detail, modeId) ==
    Message("system", <<"Gemini live agent error: ">> \o detail, modeId)

\* the finally block: the value isStreaming is set to after an outcome
FinallyStreaming_OnlyOnSuccess(outcome) ==
    IF outcome = "ok" THEN FALSE ELSE isStreaming

FinallyStreaming(outcome) == FALSE

\* modes.find((mode) => mode.id === currentModeId) ?? modes[0]
currentMode ==
    LET found == { i \in DOMAIN modes : modes[i].id = currentModeId }
    IN  IF found = {} THEN modes[1]
        ELSE modes[CHOOSE i \in found : \A j \in found : i <= j]

\* entries.map((entry) => ({ role: entry.role, content: entry.content }))
AsTurns(entries) ==
    [i \in DOMAIN entries |-> Turn(<<entries[i].role>>, entries[i].content)]

\* the request body handleSubmit sends to /api/chat
ChatPayload(content, newMessage) ==
    ChatRequest(content, <<currentModeId>>, currentMode.systemPrompt,
                Present(AsTurns(Append(messages, newMessage))))

\* the synchronous part of handleSubmit, up to `await fetch`
HandleSubmit(contentOverride) ==
    LET content == Trim(IF contentOverride = Undefined THEN pendingInput
                        ELSE contentOverride)
        newMessage == Message("user", content, currentModeId)
        k == Len(calls) + 1
        ab == AbortPrevious(aborted, recorderAbortRef)
    IN  /\ content # << >>
        /\ k <= MaxSubmits
        /\ messages' = Append(messages, newMessage)
        /\ origin' = Append(origin, k)
        /\ pendingInput' = << >>
        /\ isStreaming' = TRUE
        /\ aborted' = ab
        /\ recorderAbortRef' = k
        /\ calls' = Append(Settle(calls, ab),
                           [pc |-> "fetch", content |-> content,
                            modeId |-> currentModeId, controller |-> k,
                            cancelled |-> FALSE,
                            payload |-> ChatPayload(content, newMessage),
                            reply |-> Undefined, plan |-> Undefined,
                            outcome |-> "pending"])

\* the catch and finally blocks of call k
CatchFinally(k, detail, outcome) ==
    /\ messages' = Append(messages, ErrorMessage(detail, calls[k].modeId))
    /\ origin' = Append(origin, k)
    /\ isStreaming' = FinallyStreaming(outcome)
    /\ calls' = [calls EXCEPT ![k].pc = "done", ![k].outcome = outcome]
    /\ UNCHANGED apiVars
    /\ UNCHANGED workbenchVars
    /\ UNCHANGED <<switches, pendingInput, isListening, engine, currentModeId,
                   recorderAbortRef, aborted>>

\* abort() rejects the pending await at once: the catch and finally blocks of
\* the aborted call run as microtasks, before any later event is dispatched
RejectionPending == \E k \in DOMAIN calls : calls[k].pc = "aborted"

\* the Send button: disabled={!pendingInput.trim() || isStreaming}
ClickSend ==
    /\ ~RejectionPending
    /\ ~isStreaming
    /\ Trim(pendingInput) # << >>
    /\ HandleSubmit(Undefined)
    /\ UNCHANGED apiVars
    /\ UNCHANGED workbenchVars
    /\ UNCHANGED <<switches, isListening, engine, currentModeId>>

\* the text area's onChange
TypeInput ==
    \E value \in TypedInputs :
        /\ ~RejectionPending
        /\ pendingInput # value
        /\ pendingInput' = value
        /\ UNCHANGED apiVars
        /\ UNCHANGED workbenchVars
        /\ UNCHANGED <<switches, messages, origin, isStreaming, isListening, engine,
                       currentModeId, recorderAbortRef, aborted, calls>>

\* fetch resolves with a response: `if (!response.ok) throw`
FetchResolveOk(k) ==
    /\ ~RejectionPending
    /\ k \in DOMAIN calls
    /\ calls[k].pc = "fetch"
    /\ calls' = [calls EXCEPT ![k].pc = "json"]
    /\ UNCHANGED apiVars
    /\ UNCHANGED workbenchVars
    /\ UNCHANGED <<switches, messages, origin, pendingInput, isStreaming, isListening,
                   engine, currentModeId, recorderAbortRef, aborted>>

FetchResolveNotOk(k) ==
    \E statusText \in StatusTexts :
        /\ ~RejectionPending
        /\ k \in DOMAIN calls
        /\ calls[k].pc = "fetch"
        /\ CatchFinally(k, <<"Gemini Live request failed: ">> \o statusText, "http")

\* fetch or response.json() rejects: a network failure
NetworkFailure(k) ==
    /\ ~RejectionPending
    /\ k \in DOMAIN calls
    /\ calls[k].pc \in InFlightPcs
    /\ CatchFinally(k, NetworkErrorMessage, "network")

\* the rejection of an aborted fetch or body read reaches call k
AbortRejection(k) ==
    /\ k \in DOMAIN calls
    /\ calls[k].pc = "aborted"
    /\ CatchFinally(k, AbortErrorMessage, "abort")

\* the updater with the plan message put before the assistant message
SuccessMessages_PlanFirst(prev, reply, plan, modeId) ==
    IF Truthy(plan)
    THEN prev \o <<Message("system", plan, modeId), Message("assistant", reply, modeId)>>
    ELSE Append(prev, Message("assistant", reply, modeId))

\* the updater passed to setMessages on success
SuccessMessages(prev, reply, plan, modeId) ==
    LET assistantMessage == Message("assistant", reply, modeId)
        withAssistant == Append(prev, assistantMessage)
    IN  IF Truthy(plan)
        THEN Append(withAssistant, Message("system", plan, modeId))
        ELSE withAssistant

\* response.json() resolves: the success path and the finally block
JsonResolve(k) ==
    \E body \in ChatBodies :
        LET reply == body.reply
            plan == body.plan
        IN  /\ ~RejectionPending
            /\ k \in DOMAIN calls
            /\ calls[k].pc = "json"
            /\ messages' = SuccessMessages(messages, reply, plan, calls[k].modeId)
            /\ origin' = origin \o [i \in 1..(Len(messages') - Len(messages)) |-> k]
            /\ isStreaming' = FinallyStreaming("ok")
            /\ calls' = [calls EXCEPT ![k].pc = "done", ![k].reply = reply,
                                      ![k].plan = plan, ![k].outcome = "ok"]
            /\ UNCHANGED apiVars
            /\ UNCHANGED workbenchVars
            /\ UNCHANGED <<switches, pendingInput, isListening, engine, currentModeId,
                           recorderAbortRef, aborted>>

----------------------------------------------------------------------------
(* Client session: speech capture and mode switching *)

\* engine availability is detected once, in the mount effect
isSpeechReady == engine # "unavailable"

\* toggleListening
ToggleListening ==
    /\ ~RejectionPending
    /\ isSpeechReady
    /\ IF isListening
       THEN engine' = IF engine = "off" THEN "off" ELSE "stopping"
       ELSE /\ engine = "off"
            /\ engine' = "starting"
    /\ engine' # engine
    /\ UNCHANGED apiVars
    /\ UNCHANGED workbenchVars
    /\ UNCHANGED <<switches, messages, origin, pendingInput, isStreaming, isListening,
                   currentModeId, recorderAbortRef, aborted, calls>>

\* recognition.onstart
OnStart ==
    /\ ~RejectionPending
    /\ engine = "starting"
    /\ engine' = "on"
    /\ isListening' = TRUE
    /\ pendingInput' = << >>
    /\ UNCHANGED apiVars
    /\ UNCHANGED workbenchVars
    /\ UNCHANGED <<switches, messages, origin, isStreaming, currentModeId,
                   recorderAbortRef, aborted, calls>>

\* recognition.onresult
OnResult ==
    \E interim \in InterimTranscripts, final \in FinalTranscripts :
        /\ ~RejectionPending
        /\ engine = "on"
        /\ IF Trim(final) # << >>
           THEN /\ engine' = "stopping"
                /\ HandleSubmit(Trim(final))
                /\ UNCHANGED apiVars
                /\ UNCHANGED workbenchVars
                /\ UNCHANGED <<switches, isListening, currentModeId>>
           ELSE /\ pendingInput' = IF interim # << >> THEN interim ELSE pendingInput
                /\ pendingInput' # pendingInput
                /\ UNCHANGED apiVars
                /\ UNCHANGED workbenchVars
                /\ UNCHANGED <<switches, messages, origin, isStreaming,
                               isListening, engine, currentModeId,
                               recorderAbortRef, aborted, calls>>

\* an error handler that leaves the listening flag alone
OnError_KeepsListening ==
    /\ ~RejectionPending
    /\ engine = "on"
    /\ engine' = "stopping"
    /\ UNCHANGED apiVars
    /\ UNCHANGED workbenchVars
    /\ UNCHANGED <<switches, messages, origin, pendingInput, isStreaming, isListening,
                   currentModeId, recorderAbortRef, aborted, calls>>

\* recognition.onerror
OnError ==
    /\ ~RejectionPending
    /\ engine = "on"
    /\ engine' = "stopping"
    /\ isListening' = FALSE
    /\ UNCHANGED apiVars
    /\ UNCHANGED workbenchVars
    /\ UNCHANGED <<switches, messages, origin, pendingInput, isStreaming, currentModeId,
                   recorderAbortRef, aborted, calls>>

\* recognition.onend
OnEnd ==
    /\ ~RejectionPending
    /\ engine = "stopping"
    /\ engine' = "off"
    /\ isListening' = FALSE
    /\ UNCHANGED apiVars
    /\ UNCHANGED workbenchVars
    /\ UNCHANGED <<switches, messages, origin, pendingInput, isStreaming, currentModeId,
                   recorderAbortRef, aborted, calls>>

\* a mode button's onClick: setCurrentModeId(mode.id)
SwitchMode ==
    \E id \in { modes[i].id : i \in DOMAIN modes } :
        /\ ~RejectionPending
        /\ id # currentModeId
        /\ switches < MaxSwitches
        /\ switches' = switches + 1
        /\ currentModeId' = id
        /\ UNCHANGED apiVars
        /\ UNCHANGED workbenchVars
        /\ UNCHANGED <<messages, origin, pendingInput, isStreaming, isListening,
                       engine, recorderAbortRef, aborted, calls>>

----------------------------------------------------------------------------
(* Client session: the design console *)

\* the bound of `summary.slice(0, 220)`
DescriptionLimit == 220

\* a text longer than DescriptionLimit, one character per unit
LongText == [i \in 1..(DescriptionLimit + 3) |-> IF i <= DescriptionLimit THEN "x" ELSE "y"]

\* what the operator types into the design console
DesignNotesInputs == { <<"ship it", Blank>> }

\* proposals the design endpoint answers with on 200
DesignProposals == { << >>, LongText }

DefaultSummary ==
    <<"Autonomous mode generated without explicit description. Keep prompts concise.">>

\* an identifier that is already a mode's
buildId_Reused == DefaultModeIds[3]

\* buildId(): crypto.randomUUID() gives an identifier not produced before
buildId == "uuid-" \o ToString(uuids + 1)

\* String.prototype.slice(0, end)
Slice(s, end) == SubSeq(s, 1, IF Len(s) < end THEN Len(s) ELSE end)

\* designOutput ?? designNotes
Basis(output, notes) == OrElse(output, notes)

\* the text area of the design console: setDesignNotes(event.target.value)
TypeNotes ==
    \E value \in DesignNotesInputs :
        /\ ~RejectionPending
        /\ designNotes # value
        /\ designNotes' = value
        /\ UNCHANGED apiVars
        /\ UNCHANGED <<messages, origin, pendingInput, isStreaming, isListening, engine,
                       currentModeId, recorderAbortRef, aborted, calls, switches>>
        /\ UNCHANGED <<modes, designOutput, designLoading, designPending,
                       integrations, uuids>>

\* handleDesignSynthesis up to `await fetch`; the header button is disabled
\* while designLoading, the console's button is not
HandleDesignSynthesis ==
    /\ ~RejectionPending
    /\ ~(Trim(designNotes) = << >> /\ Len(messages) = 0)
    /\ designPending < MaxDesignPending
    /\ designLoading' = TRUE
    /\ designPending' = designPending + 1
    /\ UNCHANGED apiVars
    /\ UNCHANGED <<messages, origin, pendingInput, isStreaming, isListening, engine,
                   currentModeId, recorderAbortRef, aborted, calls, switches>>
    /\ UNCHANGED <<modes, designNotes, designOutput, integrations, uuids>>

\* a design call settles with `output`: setDesignOutput, then the finally block
DesignSettles(output) ==
    /\ ~RejectionPending
    /\ designPending > 0
    /\ designPending' = designPending - 1
    /\ designOutput' = output
    /\ designLoading' = FALSE
    /\ UNCHANGED apiVars
    /\ UNCHANGED <<messages, origin, pendingInput, isStreaming, isListening, engine,
                   currentModeId, recorderAbortRef, aborted, calls, switches>>
    /\ UNCHANGED <<modes, designNotes, integrations, uuids>>

\* response.json() resolves with { proposal }
DesignResolve == \E proposal \in DesignProposals : DesignSettles(proposal)

\* `if (!response.ok) throw`: the catch block shows the error's message
DesignNotOk ==
    \E statusText \in StatusTexts :
        DesignSettles(<<"Design call failed: ">> \o statusText)

\* fetch rejects: the catch block shows the error's message
DesignNetworkFailure == DesignSettles(NetworkErrorMessage)

\* addMode
AddMode ==
    LET basis == Basis(designOutput, designNotes)
        id == buildId
        summary == OrDefault(basis, DefaultSummary)
        newMode == Mode(id, <<"Custom Mode ", ToString(Len(modes) + 1)>>,
                        Slice(summary, DescriptionLimit),
                        <<"You are ", id, ". ">> \o summary)
    IN  /\ ~RejectionPending
        /\ uuids < MaxIds
        /\ uuids' = uuids + 1
        /\ modes' = Append(modes, newMode)
        /\ currentModeId' = id
        /\ designOutput' = Undefined
        /\ designNotes' = << >>
        /\ UNCHANGED apiVars
        /\ UNCHANGED <<messages, origin, pendingInput, isStreaming, isListening, engine,
                       recorderAbortRef, aborted, calls, switches>>
        /\ UNCHANGED <<designLoading, designPending, integrations>>

\* addIntegration
AddIntegration ==
    LET id == buildId
        draft == Integration(id, <<"Custom Connector ", ToString(Len(integrations) + 1)>>,
                             Trim(designNotes), "draft")
    IN  /\ ~RejectionPending
        /\ Trim(designNotes) # << >>
        /\ uuids < MaxIds
        /\ uuids' = uuids + 1
        /\ integrations' = <<draft>> \o integrations
        /\ designNotes' = << >>
        /\ UNCHANGED apiVars
        /\ UNCHANGED <<messages, origin, pendingInput, isStreaming, isListening, engine,
                       currentModeId, recorderAbortRef, aborted, calls, switches>>
        /\ UNCHANGED <<modes, designOutput, designLoading, designPending>>

\* the whole log displayed, whatever the mode
modeMessages_Unfiltered == messages

\* messages.filter((message) => message.modeId === currentModeId)
modeMessages == SelectSeq(messages, LAMBDA message : message.modeId = currentModeId)

----------------------------------------------------------------------------
(* Specification of the client session *)

Init ==
    /\ messages = << >>
    /\ origin = << >>
    /\ pendingInput = << >>
    /\ isStreaming = FALSE
    /\ isListening = FALSE
    /\ engine \in {"off", "unavailable"}
    /\ currentModeId = DefaultModeIds[1]
    /\ recorderAbortRef = 0
    /\ aborted = {}
    /\ calls = << >>
    /\ switches = 0
    /\ WorkbenchIdle
    /\ apiKey = <<"key">>
    /\ ApiIdle

Next ==
    \/ TypeInput
    \/ ClickSend
    \/ \E k \in CallIds : FetchResolveOk(k)
    \/ \E k \in CallIds : FetchResolveNotOk(k)
    \/ \E k \in CallIds : NetworkFailure(k)
    \/ \E k \in CallIds : AbortRejection(k)
    \/ \E k \in CallIds : JsonResolve(k)
    \/ ToggleListening
    \/ OnStart
    \/ OnResult
    \/ OnError
    \/ OnEnd
    \/ SwitchMode

Spec == Init /\ [][Next]_vars

\* every issued chat request eventually resolves, fails or, once aborted, rejects
RequestSettles(k) ==
    \/ FetchResolveOk(k)
    \/ FetchResolveNotOk(k)
    \/ NetworkFailure(k)
    \/ AbortRejection(k)
    \/ JsonResolve(k)

\* the requests of the session, without mode switching
LifecycleNext ==
    \/ TypeInput
    \/ ClickSend
    \/ \E k \in CallIds : FetchResolveOk(k)
    \/ \E k \in CallIds : FetchResolveNotOk(k)
    \/ \E k \in CallIds : NetworkFailure(k)
    \/ \E k \in CallIds : AbortRejection(k)
    \/ \E k \in CallIds : JsonResolve(k)
    \/ ToggleListening
    \/ OnStart
    \/ OnResult
    \/ OnError
    \/ OnEnd

LifecycleSpec == Init /\ [][LifecycleNext]_vars

FairSpec ==
    /\ Init
    /\ [][LifecycleNext]_vars
    /\ \A k \in CallIds : WF_vars(RequestSettles(k))

\* the session with the design console, without speech capture
WorkbenchInit ==
    /\ Init
    /\ engine = "unavailable"

WorkbenchNext ==
    \/ TypeInput
    \/ ClickSend
    \/ \E k \in CallIds : FetchResolveOk(k)
    \/ \E k \in CallIds : FetchResolveNotOk(k)
    \/ \E k \in CallIds : NetworkFailure(k)
    \/ \E k \in CallIds : JsonResolve(k)
    \/ SwitchMode
    \/ TypeNotes
    \/ HandleDesignSynthesis
    \/ DesignResolve
    \/ DesignNotOk
    \/ DesignNetworkFailure
    \/ AddMode
    \/ AddIntegration

WorkbenchSpec == WorkbenchInit /\ [][WorkbenchNext]_vars

\* the session with mode switching and mode creation
ModesNext ==
    \/ TypeInput
    \/ ClickSend
    \/ \E k \in CallIds : FetchResolveOk(k)
    \/ \E k \in CallIds : FetchResolveNotOk(k)
    \/ \E k \in CallIds : NetworkFailure(k)
    \/ \E k \in CallIds : JsonResolve(k)
    \/ SwitchMode
    \/ AddMode

ModesSpec == WorkbenchInit /\ [][ModesNext]_vars

\* the design console alone
ConsoleNext ==
    \/ TypeNotes
    \/ HandleDesignSynthesis
    \/ DesignResolve
    \/ DesignNotOk
    \/ DesignNetworkFailure
    \/ AddMode
    \/ AddIntegration

ConsoleSpec == WorkbenchInit /\ [][ConsoleNext]_vars

----------------------------------------------------------------------------
(* Specification of the proxy endpoints *)

SessionIdle ==
    /\ messages = << >>
    /\ origin = << >>
    /\ pendingInput = << >>
    /\ isStreaming = FALSE
    /\ isListening = FALSE
    /\ engine = "off"
    /\ currentModeId = DefaultModeIds[1]
    /\ recorderAbortRef = 0
    /\ aborted = {}
    /\ calls = << >>
    /\ switches = 0
    /\ WorkbenchIdle

ApiInit ==
    /\ SessionIdle
    /\ apiKey \in ApiKeys
    /\ ApiIdle

ApiNext ==
    \/ ChatPOST
    \/ ChatUpstreamReturns
    \/ DesignPOST
    \/ DesignUpstreamReturns

ApiSpec == ApiInit /\ [][ApiNext]_vars

----------------------------------------------------------------------------
(* Claims about the client session *)

Cancelled(k) == k \in DOMAIN calls /\ calls[k].cancelled

\* C1: when a second submission is made while the first request is in
\* flight, the log never receives an entry produced by the first request's
\* outcome: every non-user entry comes from a request that was not cancelled.
C1_OnlyLatestOutcomeLogged ==
    \A i \in DOMAIN messages :
        messages[i].role # "user" => ~Cancelled(origin[i])

\* C2: at most one chat request is in flight; the one in flight is the one
\* recorderAbortRef holds and its signal is not aborted; no assistant message
\* comes from a request that was aborted while in flight.
C2_AtMostOneInFlight ==
    /\ Cardinality({k \in DOMAIN calls : InFlight(k)}) <= 1
    /\ \A k \in DOMAIN calls :
          InFlight(k) => /\ recorderAbortRef = calls[k].controller
                         /\ calls[k].controller \notin aborted
    /\ \A i \in DOMAIN messages :
          messages[i].role = "assistant" => ~Cancelled(origin[i])

\* C2 witness: the first request was aborted in flight by the second
\* submission, and the second request's reply is in the log.
C2_Witness ==
    /\ Cancelled(1)
    /\ \E i \in DOMAIN messages :
          messages[i].role = "assistant" /\ origin[i] = 2

\* C3: in every state in which a chat request is unresolved (its fetch or
\* its body read is pending), isStreaming is true.
C3_StreamingWhileUnresolved ==
    (\E k \in DOMAIN calls : InFlight(k)) => isStreaming

\* C4: every state with isStreaming true is eventually followed by a state
\* with isStreaming false, given that every issued request settles.
C4_EventuallyIdle == isStreaming ~> ~isStreaming

\* C4 witness: the session is idle again after a request that failed and a
\* request that was aborted.
C4_Witness ==
    /\ ~isStreaming
    /\ Len(calls) = 2
    /\ Cancelled(1)
    /\ \A k \in DOMAIN calls : calls[k].pc = "done"
    /\ messages[Len(messages)].role = "system"

----------------------------------------------------------------------------
(* Claims about the proxy endpoints *)

ChatAnswered == apiPc = "responded" /\ apiReq.endpoint = "chat"

\* the chat endpoint answered a success response of the upstream service
ChatInterpreted ==
    ChatAnswered /\ upstream.kind = "response" /\ upstream.ok

\* the members of JSON object v under a key
MembersOf(v, key) ==
    IF v.type = "object"
    THEN { v.members[i].val :
             i \in { j \in DOMAIN v.members : v.members[j].key = key } }
    ELSE {}

HasStringReply(v) == \E m \in MembersOf(v, <<"reply">>) : m.type = "string"

HasStringPlan(v) == \E m \in MembersOf(v, <<"plan">>) : m.type = "string"

\* C5: every 200 response of the chat endpoint carries a non-empty reply.
C5_ReplyNonEmpty ==
    (ChatAnswered /\ httpResp.status = 200) => httpResp.body.reply # << >>

\* C6: when the candidate text is JSON for an object with a string reply, the
\* chat endpoint returns exactly that reply, and the parsed plan when it is a
\* string; otherwise the plan is absent.
C6_StructuredReply ==
    (ChatInterpreted /\ HasStringReply(upstream.denotes)) =>
        /\ httpResp.status = 200
        /\ DOMAIN httpResp.body = {"reply", "plan"}
        /\ \E m \in MembersOf(upstream.denotes, <<"reply">>) :
              httpResp.body.reply = m.str
        /\ IF HasStringPlan(upstream.denotes)
           THEN \E m \in MembersOf(upstream.denotes, <<"plan">>) :
                  httpResp.body.plan = m.str
           ELSE httpResp.body.plan = Undefined

\* C6 witness: a spaced-out JSON text with a string reply and a string plan
\* was answered with both.
C6_Witness ==
    /\ ChatInterpreted
    /\ HasStringReply(upstream.denotes)
    /\ HasStringPlan(upstream.denotes)
    /\ Blank \in { upstream.text[i] : i \in DOMAIN upstream.text }
    /\ httpResp.body = [reply |-> <<"Hello">>, plan |-> <<"- step one">>]

\* C7: when the candidate text is not JSON, or is JSON without a string
\* reply, the chat endpoint returns the text verbatim as reply with no plan,
\* and the fixed placeholder when the text is empty.
C7_RawFallback ==
    (ChatInterpreted /\ ~HasStringReply(upstream.denotes)) =>
        /\ httpResp.status = 200
        /\ DOMAIN httpResp.body = {"reply", "plan"}
        /\ httpResp.body.plan = Undefined
        /\ httpResp.body.reply =
              IF upstream.text = << >>
              THEN <<"Gemini did not return a message.">>
              ELSE upstream.text

\* C7 witness: a JSON object whose reply is not a string came back verbatim.
C7_Witness ==
    /\ ChatInterpreted
    /\ upstream.denotes.type = "object"
    /\ MembersOf(upstream.denotes, <<"reply">>) # {}
    /\ ~HasStringReply(upstream.denotes)
    /\ httpResp.body.reply = upstream.text
    /\ Len(upstream.text) > 1

KeyNotConfigured == apiKey = Undefined \/ apiKey = << >>

\* C8: without the API credential every request to either endpoint is
\* answered 500 with an error body and no upstream call is made.
C8_MissingKey ==
    KeyNotConfigured =>
        /\ upstreamCalls = 0
        /\ apiPc # "upstream"
        /\ apiPc = "responded" =>
              /\ httpResp.status = 500
              /\ DOMAIN httpResp.body = {"error"}
              /\ upstream = NoUpstream

\* C8 witness: the credential is set to the empty string and a chat request
\* with a blank message was answered 500.
C8_Witness ==
    /\ apiKey = << >>
    /\ ChatAnswered
    /\ apiReq.body.message = <<Blank>>
    /\ httpResp.status = 500

IsBlankMessage(m) ==
    m = Undefined \/ \A i \in DOMAIN m : m[i] = Blank

\* C9: with the credential configured, a chat request whose message is
\* missing or blank is answered 400 {error: "Message is required."} with no
\* upstream call; any other chat request makes exactly one upstream call.
C9_MessageRequired ==
    (~KeyNotConfigured /\ apiReq.endpoint = "chat") =>
        IF IsBlankMessage(apiReq.body.message)
        THEN /\ apiPc = "responded"
             /\ httpResp = [status |-> 400,
                            body |-> [error |-> <<"Message is required.">>]]
             /\ upstreamCalls = 0
        ELSE upstreamCalls = 1

\* C9 witness: a message of two blanks was answered 400.
C9_Witness ==
    /\ apiKey = <<"key">>
    /\ ChatAnswered
    /\ apiReq.body.message = <<Blank, Blank>>
    /\ httpResp.status = 400

\* C10: when the upstream call returns a non-success status, either endpoint
\* answers with that status and the upstream body as detail, after exactly one
\* upstream call, and returns no reply or proposal.
C10_UpstreamErrorPassthrough ==
    (apiPc = "responded" /\ upstream.kind = "response" /\ ~upstream.ok) =>
        /\ httpResp.status = upstream.status
        /\ DOMAIN httpResp.body = {"error", "detail"}
        /\ httpResp.body.detail = upstream.text
        /\ upstreamCalls = 1

\* C10 witness: the design endpoint passed a 429 and its body through.
C10_Witness ==
    /\ apiPc = "responded"
    /\ apiReq.endpoint = "design"
    /\ upstream.kind = "response"
    /\ upstream.status = 429
    /\ upstream.text # << >>
    /\ httpResp.status = 429

----------------------------------------------------------------------------
(* Claims about the assembled prompt and the extracted text *)

\* the first position of unit u in s
IndexOf(s, u) ==
    CHOOSE i \in 1..Len(s) : s[i] = u /\ \A j \in 1..(i - 1) : s[j] # u

PromptIssued == prompt # NoPrompt

\* the history the request passed
PassedHistory ==
    LET h == IF apiReq.endpoint = "chat" THEN apiReq.body.conversation
             ELSE apiReq.body.transcript
    IN  IF h = Absent THEN << >> ELSE h[1]

\* the part of the prompt between the transcript heading and the next heading
EmbeddedTranscript ==
    LET from == IF apiReq.endpoint = "chat" THEN "Transcript so far:"
                ELSE "Context transcript:"
        to == IF apiReq.endpoint = "chat" THEN "New live user utterance:"
              ELSE "Additional operator notes:"
    IN  SubSeq(prompt, IndexOf(prompt, from) + 2, IndexOf(prompt, to) - 3)

LineLength(turn) == Len(turn.role) + 2 + Len(turn.content)

\* where the line of turn i starts in a transcript of history h
RECURSIVE LineStart(_, _)
LineStart(h, i) ==
    IF i = 1 THEN 1 ELSE LineStart(h, i - 1) + LineLength(h[i - 1]) + 1

\* transcript t holds one "label: content" entry per turn of h, in turn order,
\* separated by line terminators
LinesAre(t, h, Label(_)) ==
    /\ Len(t) = IF h = << >> THEN 0
                ELSE LineStart(h, Len(h)) + LineLength(h[Len(h)]) - 1
    /\ \A i \in DOMAIN h :
          LET a == LineStart(h, i)
              r == Len(h[i].role)
          IN  /\ SubSeq(t, a, a + r - 1) = Label(h[i].role)
              /\ t[a + r] = ":"
              /\ t[a + r + 1] = Blank
              /\ SubSeq(t, a + r + 2, a + LineLength(h[i]) - 1) = h[i].content
              /\ i > 1 => t[a - 1] = NL

Verbatim(role) == role

\* the upper-case spelling of the role labels
UpperCaseLabel(role) ==
    CASE role = <<"user">> -> <<"USER">>
      [] role = <<"assistant">> -> <<"ASSISTANT">>
      [] role = <<"system">> -> <<"SYSTEM">>
      [] role = <<"USER">> -> <<"USER">>

\* C11 as stated: the transcript embedded in the prompt has one line per turn,
\* in turn order, whose role label and content are the turn's, verbatim.
C11_TranscriptVerbatim ==
    PromptIssued => LinesAre(EmbeddedTranscript, PassedHistory, Verbatim)

\* C11 as amended: each entry is the turn's role in upper case, ": ", and the
\* turn's content verbatim; entries are in turn order, joined by "\n"; the
\* design endpoint puts a fixed phrase in place of an empty history.
C11_TranscriptUpperCasedRoles ==
    PromptIssued =>
        IF apiReq.endpoint = "design" /\ PassedHistory = << >>
        THEN EmbeddedTranscript = <<"No conversation captured.">>
        ELSE LinesAre(EmbeddedTranscript, PassedHistory, UpperCaseLabel)

\* C11 witness: a prompt was assembled from a history of two turns, a user turn
\* followed by a system turn whose content spans two lines.
C11_Witness ==
    /\ PromptIssued
    /\ Len(PassedHistory) = 2
    /\ PassedHistory[1].role = <<"user">>
    /\ PassedHistory[2].role = <<"system">>
    /\ NL \in {PassedHistory[2].content[i] : i \in DOMAIN PassedHistory[2].content}

\* an endpoint interpreted a success response of the upstream service
UpstreamInterpreted ==
    apiPc = "responded" /\ upstream.kind = "response" /\ upstream.ok

\* C12: extractText returns the text of the first candidate's parts joined in
\* order (a part without text adds nothing, later candidates are ignored),
\* the empty string when candidates, content or parts are missing, and the two
\* routes' extractText agree; the endpoint answers 200.
C12_ExtractText ==
    UpstreamInterpreted =>
        /\ ExtractText(upstream.payload) = upstream.text
        /\ DesignExtractText(upstream.payload) = ExtractText(upstream.payload)
        /\ httpResp.status = 200
        /\ apiReq.endpoint = "design" => httpResp.body.proposal = upstream.text

\* C12 witness: the design endpoint returned the text of a first candidate
\* with three parts, one of them without text, and ignored a second candidate.
C12_Witness ==
    /\ UpstreamInterpreted
    /\ apiReq.endpoint = "design"
    /\ upstream.payload.candidates # Absent
    /\ Len(upstream.payload.candidates[1]) = 2
    /\ upstream.payload.candidates[1][1].content # Absent
    /\ Len(upstream.payload.candidates[1][1].content[1].parts[1]) = 3
    /\ httpResp.body.proposal = upstream.text
    /\ Len(upstream.text) >= 2

----------------------------------------------------------------------------
(* Claims about the outcome of a chat request in the message log *)

\* the positions of the log written by handleSubmit call k
EntriesOf(k) == { i \in DOMAIN messages : origin[i] = k }

EntriesWithRole(k, role) == { i \in EntriesOf(k) : messages[i].role = role }

Succeeded(k) == k \in DOMAIN calls /\ calls[k].outcome = "ok"

Failed(k) == k \in DOMAIN calls /\ calls[k].outcome \in {"http", "network"}

\* the log holds, for succeeded call k, one assistant message with the reply
\* and, when withPlan, a system message with the plan right after it, and
\* nothing else but the user message
SuccessLogged(k, withPlan) ==
    /\ Cardinality(EntriesWithRole(k, "assistant")) = 1
    /\ \A a \in EntriesWithRole(k, "assistant") :
          /\ messages[a].content = calls[k].reply
          /\ IF withPlan
             THEN /\ a + 1 \in EntriesWithRole(k, "system")
                  /\ messages[a + 1].content = calls[k].plan
                  /\ Cardinality(EntriesWithRole(k, "system")) = 1
             ELSE EntriesWithRole(k, "system") = {}

\* C13 as stated: a succeeded request adds an assistant message with the
\* reply and, whenever the response has a plan, a system message with that
\* plan directly after it; without a plan only the assistant message.
C13_PlanWheneverPresent ==
    \A k \in DOMAIN calls :
        Succeeded(k) => SuccessLogged(k, calls[k].plan # Undefined)

\* C13 as amended: the system message follows whenever the response has a
\* non-empty plan; with no plan or an empty plan only the assistant message
\* is added.
C13_PlanWheneverNonEmpty ==
    \A k \in DOMAIN calls :
        Succeeded(k) =>
            SuccessLogged(k, calls[k].plan # Undefined /\ calls[k].plan # << >>)

\* C13 witness: a request succeeded with a plan, and its assistant message
\* and plan message are in the log followed by a later submission.
C13_Witness ==
    /\ Succeeded(1)
    /\ calls[1].plan = <<"- step one">>
    /\ Len(messages) >= 4
    /\ messages[2].role = "assistant"
    /\ messages[3].role = "system"
    /\ messages[4].role = "user"

\* C14: a request that failed (non-success response or network failure) left
\* exactly one system message with an error description and no assistant
\* message, its user message is in the log, and when it is the latest
\* submission the session is idle with no request in flight, so that the Send
\* button takes the next non-blank input.
C14_FailureLogged ==
    \A k \in DOMAIN calls :
        Failed(k) =>
            /\ Cardinality(EntriesWithRole(k, "system")) = 1
            /\ \A i \in EntriesWithRole(k, "system") :
                  /\ Len(messages[i].content) >= 2
                  /\ messages[i].content[1] = "Gemini live agent error: "
            /\ EntriesWithRole(k, "assistant") = {}
            /\ \E i \in EntriesWithRole(k, "user") :
                  messages[i].content = calls[k].content
            /\ k = Len(calls) =>
                  /\ ~isStreaming
                  /\ \A j \in DOMAIN calls : ~InFlight(j)
                  /\ (Trim(pendingInput) # << >> /\ Len(calls) < MaxSubmits)
                        => ENABLED ClickSend

\* C14 witness: the first request failed with a non-success response and the
\* next submission succeeded and was answered in the log.
C14_Witness ==
    /\ Failed(1)
    /\ calls[1].outcome = "http"
    /\ Succeeded(2)
    /\ EntriesWithRole(2, "assistant") # {}

----------------------------------------------------------------------------
(* Claims about the log, the modes and the design console *)

IsPrefix(a, b) == Len(a) <= Len(b) /\ SubSeq(b, 1, Len(a)) = a

\* the positions of the log that belong to mode id
PositionsOfMode(id) == { i \in DOMAIN messages : messages[i].modeId = id }

\* sequence d holds exactly the log entries at the positions in idx, in log order
HoldsEntriesAt(d, idx) ==
    /\ Len(d) = Cardinality(idx)
    /\ \A i \in idx : d[Cardinality({ j \in idx : j <= i })] = messages[i]

\* C15: a step never removes, reorders or modifies a log entry, it only
\* appends; a step that changes the current mode leaves the log unchanged;
\* the displayed history is exactly the entries of the current mode, in log
\* order.
C15_LogAppendOnly ==
    /\ [](HoldsEntriesAt(modeMessages, PositionsOfMode(currentModeId)))
    /\ [][/\ IsPrefix(messages, messages')
          /\ currentModeId' # currentModeId => messages' = messages]_vars

\* C15 witness: the log holds entries of two modes, one of them a mode made
\* by addMode, a design synthesis has answered, and the display shows a
\* proper, non-empty part of the log.
C15_Witness ==
    /\ Len(modes) > Len(DefaultModes)
    /\ PositionsOfMode(modes[Len(modes)].id) # {}
    /\ PositionsOfMode(DefaultModeIds[1]) # {}
    /\ designOutput # Undefined
    /\ modeMessages # << >>
    /\ Len(modeMessages) < Len(messages)

\* the first n characters of s
FirstChars(s, n) == [i \in 1..(IF Len(s) < n THEN Len(s) ELSE n) |-> s[i]]

\* the basis of a new mode: the proposal if there is one, otherwise the
\* operator notes, otherwise the fixed phrase
DescriptionBasis ==
    IF designOutput # Undefined /\ designOutput # << >> THEN designOutput
    ELSE IF designNotes # << >> THEN designNotes
    ELSE <<"Autonomous mode generated without explicit description. Keep prompts concise.">>

\* C16: a step that adds a mode appends exactly one mode at the end of the
\* list, leaves the existing modes unchanged, makes the new mode current, and
\* gives it the first 220 characters of the basis as its description.
C16_AddModeFromBasis ==
    [][Len(modes') > Len(modes) =>
          LET added == modes'[Len(modes')]
          IN  /\ modes' = Append(modes, added)
              /\ currentModeId' = added.id
              /\ added.description = FirstChars(DescriptionBasis, 220)]_vars

ModeIdsNow == { modes[i].id : i \in DOMAIN modes }

\* C17: the current mode identifier is the id of exactly one mode of the
\* list; no step removes or changes a mode; every message a step appends has a
\* modeId that is the id of a mode of the list.
C17_ModeInvariants ==
    /\ [](Cardinality({ i \in DOMAIN modes : modes[i].id = currentModeId }) = 1)
    /\ [][/\ IsPrefix(modes, modes')
          /\ \A i \in (Len(messages) + 1)..Len(messages') :
                messages'[i].modeId \in ModeIdsNow]_vars

\* C17 witness: a request submitted in a built-in mode was answered, a mode
\* was added and became current, and a request submitted in the added mode
\* was answered too.
C17_Witness ==
    /\ Len(modes) = Len(DefaultModes) + 1
    /\ currentModeId = modes[Len(modes)].id
    /\ Succeeded(1)
    /\ calls[1].modeId = DefaultModeIds[1]
    /\ Succeeded(2)
    /\ calls[2].modeId = currentModeId

\* the turn a log entry is sent as
TurnOf(message) == [role |-> <<message.role>>, content |-> message.content]

\* C18: the conversation a submission sends holds, in log order, only the
\* entries of the log whose modeId is the submission's mode, and ends with
\* the submitted user message.
C18_ModeScopedConversation ==
    \A k \in DOMAIN calls :
        \A u \in EntriesWithRole(k, "user") :
            LET sent == calls[k].payload.conversation[1]
                scoped == { i \in 1..u : messages[i].modeId = calls[k].modeId }
            IN  /\ Len(sent) = Cardinality(scoped)
                /\ \A i \in scoped :
                      sent[Cardinality({ j \in scoped : j <= i })] = TurnOf(messages[i])
                /\ sent[Len(sent)] = [role |-> <<"user">>, content |-> calls[k].content]

\* the non-blank final transcripts, trimmed
SpokenTexts == { Trim(f) : f \in { g \in FinalTranscripts : Trim(g) # << >> } }

\* C19: a result step with a finalized non-blank transcript, the one that
\* empties the text area, stops the engine and submits exactly one user message
\* whose content is the trimmed transcript; a result step that shows interim
\* text submits nothing; an error step stops the engine and clears the listening flag;
\* after an end step the listening flag is false.
C19_SpeechCapture ==
    [][/\ (OnResult /\ pendingInput' = << >>) =>
             /\ engine' = "stopping"
             /\ Len(calls') = Len(calls) + 1
             /\ calls'[Len(calls')].content \in SpokenTexts
             /\ calls'[Len(calls')].payload.message = calls'[Len(calls')].content
             /\ messages' = Append(messages,
                                   [role |-> "user",
                                    content |-> calls'[Len(calls')].content,
                                    modeId |-> currentModeId])
       /\ (OnResult /\ pendingInput' # << >>) =>
             /\ messages' = messages
             /\ calls' = calls
             /\ engine' = "on"
       /\ OnError => (engine' = "stopping" /\ ~isListening')
       /\ OnEnd => ~isListening']_vars

\* C19 witness: a finalized transcript was submitted while the request of a
\* typed message was in flight, and the engine has since ended.
C19_Witness ==
    /\ Len(calls) = 2
    /\ Cancelled(1)
    /\ calls[2].content = <<"hi">>
    /\ calls[2].pc = "fetch"
    /\ engine = "off"
    /\ ~isListening

====
